---------------------------- MODULE Spec2Model ----------------------------
(***************************************************************************)
(* A model of libgut.py: the repository bootstrap (GitRepository,          *)
(* repo_path, repo_file, repo_dir, repo_create, repo_find) and the object  *)
(* store (object_read from the source, the write path from the design).    *)
(*                                                                         *)
(* The file system is a function from the paths that exist to their node.  *)
(* A path is a sequence of names, <<>> being the root directory.  A byte   *)
(* is a one-character string; NUL and XFF (a byte above 0x7f) are named.   *)
(***************************************************************************)
EXTENDS Integers, Sequences, FiniteSets, TLC

VARIABLES fs, ret, op, find, nwrites

vars == <<fs, ret, op, find, nwrites>>

\* The value of Then at the value of e; e is evaluated once, like a Python
\* local assigned the result of a call.
Bind(e, Then(_)) == CHOOSE r \in {Then(v) : v \in {e}} : TRUE

---------------------------------------------------------------------------
(* Bytes and Python's sequence primitives                                  *)

SP == " "
NUL == "NUL"
XFF == "XFF"

DigitChars == <<"0", "1", "2", "3", "4", "5", "6", "7", "8", "9">>

IsDigit(c) == \E i \in 1..Len(DigitChars) : DigitChars[i] = c

DigitVal(c) == (CHOOSE i \in 1..Len(DigitChars) : DigitChars[i] = c) - 1

Min(S) == CHOOSE m \in S : \A k \in S : m <= k

Max(S) == CHOOSE m \in S : \A k \in S : m >= k

\* Python's index normalisation in a slice or a find: a negative index counts
\* from the end, and the result is clamped to 0..len.
PyIndex(n, i) == IF i < 0 THEN Max({n + i, 0}) ELSE Min({i, n})

\* s[i:j]
PySlice(s, i, j) ==
    Bind(<<PyIndex(Len(s), i), PyIndex(Len(s), j)>>,
         LAMBDA ab : IF ab[1] >= ab[2] THEN <<>> ELSE SubSeq(s, ab[1] + 1, ab[2]))

\* s.find(c, start): the lowest 0-based index >= start holding c, else -1.
PyFind(s, c, start) ==
    Bind({i \in PyIndex(Len(s), start)..(Len(s) - 1) : s[i + 1] = c},
         LAMBDA hits : IF hits = {} THEN -1 ELSE Min(hits))

\* bytes.decode("ascii") succeeds iff every byte is below 0x80.
IsAscii(s) == \A i \in 1..Len(s) : s[i] # XFF

\* str.strip(): the text without its leading and trailing whitespace.
Strip(s) ==
    Bind({i \in 1..Len(s) : s[i] # SP},
         LAMBDA keep : IF keep = {} THEN <<>> ELSE SubSeq(s, Min(keep), Max(keep)))

\* The number the first n characters of a digit string spell.
RECURSIVE DecimalPrefix(_, _)
DecimalPrefix(s, n) ==
    IF n = 0 THEN 0 ELSE 10 * DecimalPrefix(s, n - 1) + DigitVal(s[n])

DecimalValue(s) == DecimalPrefix(s, Len(s))

\* int(text): surrounding whitespace is dropped, what is left must be a
\* non-empty run of decimal digits; anything else raises ValueError.
PyInt(s) ==
    Bind(Strip(s),
         LAMBDA t : IF t # <<>> /\ \A i \in 1..Len(t) : IsDigit(t[i])
                    THEN [ok |-> TRUE, val |-> DecimalValue(t)]
                    ELSE [ok |-> FALSE, val |-> 0])

\* str(n) for n >= 0.
RECURSIVE Decimal(_)
Decimal(n) ==
    IF n < 10 THEN <<DigitChars[n + 1]>>
    ELSE Decimal(n \div 10) \o <<DigitChars[(n % 10) + 1]>>

\* The string the first n one-character strings of s spell.
RECURSIVE StrPrefix(_, _)
StrPrefix(s, n) == IF n = 0 THEN "" ELSE StrPrefix(s, n - 1) \o s[n]

Str(s) == StrPrefix(s, Len(s))

---------------------------------------------------------------------------
(* The file system                                                         *)

DirNode == [kind |-> "dir", data |-> <<>>]

FileNode(d) == [kind |-> "file", data |-> d]

RootFs == (<<>> :> DirNode)

Exists(f, p) == p \in DOMAIN f

IsDir(f, p) == Exists(f, p) /\ f[p].kind = "dir"

IsFile(f, p) == Exists(f, p) /\ f[p].kind = "file"

Parent(p) == SubSeq(p, 1, Len(p) - 1)

Prefixes(p) == {SubSeq(p, 1, k) : k \in 0..Len(p)}

IsUnder(r, p) == Len(r) >= Len(p) /\ SubSeq(r, 1, Len(p)) = p

\* os.listdir(p): the names directly below p.
ListDir(f, p) == {q \in DOMAIN f : Len(q) = Len(p) + 1 /\ IsUnder(q, p)}

WithDir(f, p) == [q \in DOMAIN f \cup {p} |-> IF q = p THEN DirNode ELSE f[q]]

Without(f, p) == [q \in {r \in DOMAIN f : ~IsUnder(r, p)} |-> f[q]]

\* os.makedirs(p): creates p and every missing ancestor; raises when a
\* prefix exists and is no directory (or p itself exists).
Makedirs(f, p) ==
    IF Exists(f, p) \/ \E q \in Prefixes(p) : IsFile(f, q)
    THEN [ok |-> FALSE, fs |-> f]
    ELSE [ok |-> TRUE,
          fs |-> [q \in DOMAIN f \cup Prefixes(p) |->
                    IF q \in DOMAIN f THEN f[q] ELSE DirNode]]

\* The file p holding d, created or truncated.
WriteFile(f, p, d) ==
    [q \in DOMAIN f \cup {p} |-> IF q = p THEN FileNode(d) ELSE f[q]]

\* open(p, "w") and a write of d: raises when p is a directory or its parent
\* is none.
OpenWrite(f, p, d) ==
    IF IsDir(f, p) \/ ~IsDir(f, Parent(p))
    THEN [ok |-> FALSE, fs |-> f]
    ELSE [ok |-> TRUE, fs |-> WriteFile(f, p, d)]

---------------------------------------------------------------------------
(* configparser: the INI text of a configuration and its parse             *)

\* An in-memory configuration is a sequence of options, each
\* [sec, key, val] with val the characters of the value.
Option(s, k, v) == [sec |-> s, key |-> k, val |-> v]

SectionLine(s) == [t |-> "section", name |-> s, val |-> <<>>]

OptionLine(k, v) == [t |-> "option", name |-> k, val |-> v]

\* ConfigParser.write, the lines of the first n options: a "[section]" line
\* where the section changes, then one "key = value" line per option.
RECURSIVE ConfigWritePrefix(_, _)
ConfigWritePrefix(conf, n) ==
    IF n = 0 THEN <<>>
    ELSE ConfigWritePrefix(conf, n - 1)
            \o (IF n > 1 /\ conf[n - 1].sec = conf[n].sec
                THEN <<>> ELSE <<SectionLine(conf[n].sec)>>)
            \o <<OptionLine(conf[n].key, conf[n].val)>>

ConfigWrite(conf) == ConfigWritePrefix(conf, Len(conf))

\* The section an option line at index i belongs to: the nearest section
\* header above it ("" when there is none).
SectionAt(lines, i) ==
    Bind({j \in 1..(i - 1) : lines[j].t = "section"},
         LAMBDA heads : IF heads = {} THEN "" ELSE lines[Max(heads)].name)

\* ConfigParser.read of one file's lines: an option line before any section
\* header raises MissingSectionHeaderError.
ConfigParse(lines) ==
    Bind({i \in 1..Len(lines) : lines[i].t = "option"},
         LAMBDA opts :
            [ok |-> \A i \in opts : SectionAt(lines, i) # "",
             conf |-> [k \in 1..Cardinality(opts) |->
                         Bind(CHOOSE i \in opts : Cardinality({j \in opts : j <= i}) = k,
                              LAMBDA i : Option(SectionAt(lines, i), lines[i].name,
                                                lines[i].val))]])

\* ConfigParser.get(sec, key): raises NoSectionError / NoOptionError when
\* the option is not there.
ConfigGet(conf, s, k) ==
    Bind({i \in 1..Len(conf) : conf[i].sec = s /\ conf[i].key = k},
         LAMBDA hits : IF hits = {} THEN [ok |-> FALSE, val |-> <<>>]
                       ELSE [ok |-> TRUE, val |-> conf[Max(hits)].val])

---------------------------------------------------------------------------
(* GitRepository and the path helpers                                      *)

NoRepo == [worktree |-> <<>>, gitdir |-> <<>>, conf |-> <<>>]

\* The outcome of a path helper: st is "path" (a path is returned), "none"
\* (None is returned) or "raise" (an exception named by err leaves the call).
Returned(f, p) == [st |-> "path", p |-> p, fs |-> f, err |-> ""]

ReturnedNone(f) == [st |-> "none", p |-> <<>>, fs |-> f, err |-> ""]

Raised(f, e) == [st |-> "raise", p |-> <<>>, fs |-> f, err |-> e]

repo_path(repo, path) == repo.gitdir \o path

repo_dir(f, repo, path, mkdir) ==
    Bind(repo_path(repo, path),
         LAMBDA p :
            IF Exists(f, p)
            THEN IF IsDir(f, p) THEN Returned(f, p) ELSE Raised(f, "Not a directory")
            ELSE IF mkdir
                 THEN Bind(Makedirs(f, p),
                           LAMBDA m : IF m.ok THEN Returned(m.fs, p)
                                      ELSE Raised(f, "OSError"))
                 ELSE ReturnedNone(f))

repo_file(f, repo, path, mkdir) ==
    Bind(repo_dir(f, repo, SubSeq(path, 1, Len(path) - 1), mkdir),
         LAMBDA d : IF d.st = "path" THEN Returned(d.fs, repo_path(repo, path)) ELSE d)

\* The configuration the constructor reads: conf.read([cf]) when cf is a
\* path that exists (a directory there is skipped), else nothing;
\* [has, ok, conf, get].
ReadConfig(f, cf) ==
    Bind(cf.st = "path" /\ Exists(f, cf.p),
         LAMBDA has :
            Bind(IF has /\ IsFile(f, cf.p) THEN ConfigParse(f[cf.p].data)
                 ELSE [ok |-> TRUE, conf |-> <<>>],
                 LAMBDA parsed :
                    [has |-> has, ok |-> parsed.ok, conf |-> parsed.conf,
                     get |-> ConfigGet(parsed.conf, "core", "repositoryformatversion")]))

\* GitRepository(path, force): [st, repo, err]; the constructor never writes.
GitRepository(f, path, force) ==
    LET self == [worktree |-> path, gitdir |-> Append(path, ".git"), conf |-> <<>>]
        fail(e) == [st |-> "raise", repo |-> NoRepo, err |-> e]
        check(c) ==
            IF c.has /\ ~c.ok THEN fail("MissingSectionHeaderError")
            ELSE IF ~c.has /\ ~force THEN fail("Configuration file missing")
            ELSE IF force
                 THEN [st |-> "ok", repo |-> [self EXCEPT !.conf = c.conf], err |-> ""]
            ELSE IF ~c.get.ok THEN fail("NoOptionError")
            ELSE Bind(PyInt(c.get.val),
                      LAMBDA vers :
                        IF ~vers.ok THEN fail("ValueError")
                        ELSE IF vers.val # 0
                             THEN fail("Unsupported repositoryformatversion")
                        ELSE [st |-> "ok", repo |-> [self EXCEPT !.conf = c.conf],
                              err |-> ""])
    IN IF ~(force \/ IsDir(f, self.gitdir)) THEN fail("Not a Git repository")
       ELSE Bind(repo_file(f, self, <<"config">>, FALSE),
                 LAMBDA cf : IF cf.st = "raise" THEN fail(cf.err)
                             ELSE Bind(ReadConfig(f, cf), check))

\* A default configuration that announces format version 1.
repo_default_config_v1 ==
    << Option("core", "repositoryformatversion", <<"1">>),
       Option("core", "filemode", <<"f", "a", "l", "s", "e">>),
       Option("core", "bare", <<"f", "a", "l", "s", "e">>) >>

repo_default_config ==
    << Option("core", "repositoryformatversion", <<"0">>),
       Option("core", "filemode", <<"f", "a", "l", "s", "e">>),
       Option("core", "bare", <<"f", "a", "l", "s", "e">>) >>

DescriptionText == <<"Unnamed repository: edit this file 'description to name the repository.\n">>

HeadText == <<"ref: refs/heads/master\n">>

\* One step of repo_create on the file system f: a directory made with
\* repo_dir(..., mkdir=True) under an assert, or a file opened for writing
\* at repo_file(...) and written.
ApplyStep(f, repo, s) ==
    IF s.kind = "dir"
    THEN Bind(repo_dir(f, repo, s.path, TRUE),
              LAMBDA d : IF d.st # "path"
                         THEN [st |-> "raise", fs |-> d.fs, err |-> "AssertionError"]
                         ELSE [st |-> "ok", fs |-> d.fs, err |-> ""])
    ELSE Bind(repo_file(f, repo, s.path, FALSE),
              LAMBDA p : IF p.st # "path"
                         THEN [st |-> "raise", fs |-> p.fs, err |-> "OSError"]
                         ELSE Bind(OpenWrite(p.fs, p.p, s.data),
                                   LAMBDA w : IF w.ok
                                              THEN [st |-> "ok", fs |-> w.fs, err |-> ""]
                                              ELSE [st |-> "raise", fs |-> p.fs, err |-> "OSError"]))

\* repo_create's writes, in the code's order; each step runs on the file
\* system the step before left, and the first exception ends the call.
RECURSIVE RunSteps(_, _, _, _)
RunSteps(f, repo, steps, i) ==
    IF i > Len(steps) THEN [st |-> "ok", fs |-> f, err |-> ""]
    ELSE Bind(ApplyStep(f, repo, steps[i]),
              LAMBDA o : IF o.st = "raise" THEN o
                         ELSE RunSteps(o.fs, repo, steps, i + 1))

CreateSteps ==
    << [kind |-> "dir", path |-> <<"branches">>, data |-> <<>>],
       [kind |-> "dir", path |-> <<"objects">>, data |-> <<>>],
       [kind |-> "dir", path |-> <<"refs", "tags">>, data |-> <<>>],
       [kind |-> "dir", path |-> <<"refs", "heads">>, data |-> <<>>],
       [kind |-> "file", path |-> <<"description">>, data |-> DescriptionText],
       [kind |-> "file", path |-> <<"HEAD">>, data |-> HeadText],
       [kind |-> "file", path |-> <<"config">>, data |-> ConfigWrite(repo_default_config)] >>

\* A check that forgets to look into .git.
CreateGuardNoListdir(f, repo) ==
    IF Exists(f, repo.worktree) /\ ~IsDir(f, repo.worktree)
    THEN "is not a directory"
    ELSE ""

\* The check that opens repo_create: "" when the location may be
\* initialised (it does not exist, or is a directory whose .git is absent or
\* empty), else the message of the exception.
CreateGuard(f, repo) ==
    IF Exists(f, repo.worktree)
    THEN IF ~IsDir(f, repo.worktree) THEN "is not a directory"
         ELSE IF Exists(f, repo.gitdir) /\ ListDir(f, repo.gitdir) # {}
              THEN "is not empty!"
              ELSE ""
    ELSE ""

\* repo_create(path): [st, fs, repo, err].
repo_create(f, path) ==
    LET fail(ff, e) == [st |-> "raise", fs |-> ff, repo |-> NoRepo, err |-> e]
        build(g, made) ==
            IF ~made.ok THEN fail(f, "OSError")
            ELSE Bind(RunSteps(made.fs, g.repo, CreateSteps, 1),
                      LAMBDA run :
                        IF run.st = "raise" THEN fail(run.fs, run.err)
                        ELSE [st |-> "ok", fs |-> run.fs, repo |-> g.repo, err |-> ""])
        create(g, why) ==
            IF why # "" THEN fail(f, why)
            ELSE Bind(IF Exists(f, path) THEN [ok |-> TRUE, fs |-> f]
                      ELSE Makedirs(f, path),
                      LAMBDA made : build(g, made))
    IN Bind(GitRepository(f, path, TRUE),
            LAMBDA g : IF g.st = "raise" THEN fail(f, g.err)
                       ELSE Bind(CreateGuard(f, g.repo), LAMBDA why : create(g, why)))

---------------------------------------------------------------------------
(* zlib: the compressed form of a byte stream                              *)

Alphabet ==
    << NUL, SP, "0", "1", "2", "3", "4", "5", "6", "7", "8", "9",
       "a", "b", "c", "e", "g", "i", "l", "m", "o", "r", "t", "x", XFF >>

\* The code of a byte; every byte outside the alphabet has the code past it.
ByteCode(c) ==
    IF \E i \in 1..Len(Alphabet) : Alphabet[i] = c
    THEN CHOOSE i \in 1..Len(Alphabet) : Alphabet[i] = c
    ELSE Len(Alphabet) + 1

\* The sum of the codes of the first n bytes.
RECURSIVE ByteSum(_, _)
ByteSum(s, n) == IF n = 0 THEN 0 ELSE ByteSum(s, n - 1) + ByteCode(s[n])

\* The Adler-32 trailer of a zlib stream, as the text of its number.
Adler(s) == ToString((1 + ByteSum(s, Len(s))) % 65521)

\* zlib.compress: the header byte 0x78 ("x"), the body, the checksum.
Compress(raw) == <<"x">> \o raw \o <<Adler(raw)>>

\* zlib.decompress: raises zlib.error unless the header byte and the
\* checksum are those of the body.
Decompress(data) ==
    IF Len(data) >= 2 /\ data[1] = "x"
    THEN Bind(SubSeq(data, 2, Len(data) - 1),
              LAMBDA body : IF data[Len(data)] = Adler(body)
                            THEN [ok |-> TRUE, raw |-> body]
                            ELSE [ok |-> FALSE, raw |-> <<>>])
    ELSE [ok |-> FALSE, raw |-> <<>>]

---------------------------------------------------------------------------
(* object_read                                                             *)

Blob == <<"b", "l", "o", "b">>
Tree == <<"t", "r", "e", "e">>
Commit == <<"c", "o", "m", "m", "i", "t">>
Tag == <<"t", "a", "g">>

KnownTags == {Blob, Tree, Commit, Tag}

\* What a call leaves its caller with: kind is "idle" (no call yet), "none"
\* (None returned), "object" (a GitObject returned), "repo" (a GitRepository
\* returned, path being its worktree), "address" (an address returned in
\* sha) or "error" (exc raised, msg and fmt being the message's parts).
Outcome(kind, exc, msg, fmt, sha, variant, data) ==
    [kind |-> kind, exc |-> exc, msg |-> msg, fmt |-> fmt, sha |-> sha,
     variant |-> variant, data |-> data, path |-> <<>>]

Idle == Outcome("idle", "", "", <<>>, <<>>, "", <<>>)

RetNone(sha) == Outcome("none", "", "", <<>>, sha, "", <<>>)

RetError(exc, msg, fmt, sha) == Outcome("error", exc, msg, fmt, sha, "", <<>>)

RetRepo(worktree) == [Idle EXCEPT !.kind = "repo", !.path = worktree]

RetRaise(msg) == [Idle EXCEPT !.kind = "error", !.exc = "Exception", !.msg = msg]

RetAddress(sha) == Outcome("address", "", "", <<>>, sha, "", <<>>)

\* GitBlob / GitTree / GitCommit / GitTag (data): the object of that variant
\* holding the payload.
Construct(fmt, data, sha) == Outcome("object", "", "", fmt, sha, Str(fmt), data)

\* The path components of an address under the git directory.
ObjectName(sha) ==
    <<"objects", Str(PySlice(sha, 0, 2)), Str(PySlice(sha, 2, Len(sha)))>>

\* The lookup with mkdir=True: it would create the first-level directory.
ObjectPathMkdir(f, repo, sha) == repo_file(f, repo, ObjectName(sha), TRUE)

\* The path of an object: objects/<sha[0:2]>/<sha[2:]> under the git
\* directory, looked up without creating anything.
ObjectPath(f, repo, sha) == repo_file(f, repo, ObjectName(sha), FALSE)

\* A size check that lets bytes past the declared size through.
SizeAtMost(size, raw, y) == size <= Len(raw) - y - 1

\* The size check: the declared size against the bytes after index y.
SizeMatches(size, raw, y) == size = Len(raw) - y - 1

\* The dispatch on the tag, after the size check.
Dispatch(raw, fmt, y, sha) ==
    IF fmt \in KnownTags THEN Construct(fmt, PySlice(raw, y + 1, Len(raw)), sha)
    ELSE IF ~IsAscii(fmt) THEN RetError("UnicodeDecodeError", "", <<>>, sha)
    ELSE RetError("Exception", "unknown type", fmt, sha)

\* The size field raw[x:y], decoded, parsed and compared.
CheckSize(raw, fmt, y, field, sha) ==
    IF ~IsAscii(field) THEN RetError("UnicodeDecodeError", "", <<>>, sha)
    ELSE Bind(PyInt(field),
              LAMBDA size :
                IF ~size.ok THEN RetError("ValueError", "", <<>>, sha)
                ELSE IF ~SizeMatches(size.val, raw, y)
                     THEN RetError("Exception", "malformed object: bad length", <<>>, sha)
                ELSE Dispatch(raw, fmt, y, sha))

\* The decode of a decompressed stream.
DecodeObject(raw, sha) ==
    Bind(PyFind(raw, SP, 0),
         LAMBDA x : Bind(PyFind(raw, NUL, x),
                         LAMBDA y : CheckSize(raw, PySlice(raw, 0, x), y,
                                              PySlice(raw, x, y), sha)))

\* object_read(repo, sha): [fs, ret].
object_read(f, repo, sha) ==
    Bind(ObjectPath(f, repo, sha),
         LAMBDA path :
            [fs |-> path.fs,
             ret |-> IF path.st = "raise" THEN RetError("Exception", path.err, <<>>, sha)
                     ELSE IF path.st = "none" THEN RetError("TypeError", "", <<>>, sha)
                     ELSE IF ~IsFile(path.fs, path.p) THEN RetNone(sha)
                     ELSE Bind(Decompress(path.fs[path.p].data),
                               LAMBDA z : IF ~z.ok THEN RetError("zlib.error", "", <<>>, sha)
                                          ELSE DecodeObject(z.raw, sha))])

---------------------------------------------------------------------------
(* The write path of the object store                                      *)

HexChars ==
    <<"0", "1", "2", "3", "4", "5", "6", "7", "8", "9", "a", "b", "c", "d", "e", "f">>

\* The canonical encoding: tag SPACE decimal-length NUL payload.
Encode(tag, payload) == tag \o <<SP>> \o Decimal(Len(payload)) \o <<NUL>> \o payload

\* A 16-bit digest of the first n bytes.
RECURSIVE Digest(_, _)
Digest(s, n) ==
    IF n = 0 THEN 7 ELSE (Digest(s, n - 1) * 31 + ByteCode(s[n])) % 65536

\* The content address: the digest of the encoded bytes, in lowercase hex.
HashAddr(raw) ==
    Bind(Digest(raw, Len(raw)),
         LAMBDA h : << HexChars[(h \div 4096) + 1], HexChars[((h \div 256) % 16) + 1],
                       HexChars[((h \div 16) % 16) + 1], HexChars[(h % 16) + 1] >>)

\* rename(src, dst): dst holds what src held, src is gone.
Rename(f, src, dst) ==
    [q \in (DOMAIN f \ {src}) \cup {dst} |-> IF q = dst THEN f[src] ELSE f[q]]

\* A persist that opens the object file for appending.
StoreBytesAppend(f, p, data) ==
    Bind(Append(Parent(p), "tmp"),
         LAMBDA tmp :
            Rename(WriteFile(f, tmp, (IF IsFile(f, p) THEN f[p].data ELSE <<>>) \o data),
                   tmp, p))

\* The persist step: nothing when the path exists, else the bytes written
\* to a temporary name in the same directory and renamed into place.
StoreBytes(f, p, data) ==
    IF Exists(f, p) THEN f
    ELSE Bind(Append(Parent(p), "tmp"),
              LAMBDA tmp : Rename(WriteFile(f, tmp, data), tmp, p))

\* write_object(repo, object): [fs, ret]; the address is returned, the
\* missing first-level directory is created, the compressed bytes stored.
object_write(f, repo, tag, payload) ==
    Bind(Encode(tag, payload),
         LAMBDA raw :
            Bind(HashAddr(raw),
                 LAMBDA sha :
                    Bind(repo_file(f, repo, ObjectName(sha), TRUE),
                         LAMBDA path :
                            IF path.st # "path"
                            THEN [fs |-> path.fs,
                                  ret |-> RetError("StorageIOFailure", path.err, <<>>, sha)]
                            ELSE [fs |-> StoreBytes(path.fs, path.p, Compress(raw)),
                                  ret |-> RetAddress(sha)])))

---------------------------------------------------------------------------
(* The object store under read: one repository, one object slot            *)

MaxPayload == 2

W == <<"w">>

\* The repository repo_create leaves at W, and its handle.
StoreFs == repo_create(RootFs, W).fs

StoreRepo == GitRepository(StoreFs, W, FALSE).repo

A1 == <<"a", "b", "1", "2">>
A2 == <<"a", "b", "3", "4">>
A3 == <<"c", "d", "1", "2">>

Addresses == {A1, A2, A3}

SeqsUpTo(S, n) == UNION {[1..k -> S] : k \in 0..n}

TagSamples == KnownTags \cup {<<>>, <<"b", "l", "o", "g">>, <<XFF>>}

SizeSamples ==
    {<<>>} \cup {<<DigitChars[i]>> : i \in 1..Len(DigitChars)}
           \cup {<<"1", "0">>, <<"0", "1">>, <<SP, "1">>, <<"1", SP>>, <<"x">>, <<XFF>>}

PayloadSamples == SeqsUpTo({"a", SP, NUL}, MaxPayload)

\* Byte streams: a tag, then optionally a space, a size field, optionally a
\* NUL, and a payload; well-formed objects and their corruptions.
Streams ==
    {t \o s1 \o n \o s2 \o d :
        t \in TagSamples, s1 \in {<<>>, <<SP>>}, n \in SizeSamples,
        s2 \in {<<>>, <<NUL>>}, d \in PayloadSamples}

\* What the file of an object may hold: a compressed stream, or bytes that
\* are no zlib stream (empty, a stray byte, a stream cut before its trailer).
FileContents ==
    {Compress(r) : r \in Streams}
        \cup {<<>>, <<"a">>, <<"x">> \o Blob \o <<SP, "0", NUL>>}

ObjectFile(sha) ==
    StoreRepo.gitdir \o <<"objects", Str(SubSeq(sha, 1, 2)), Str(SubSeq(sha, 3, Len(sha)))>>

Fanout(sha) == Parent(ObjectFile(sha))

\* The layouts of the object directory a read may meet.
StoreLayouts ==
    {StoreFs,
     WithDir(StoreFs, Fanout(A1)),
     WriteFile(StoreFs, Fanout(A1), <<>>),
     Without(StoreFs, StoreRepo.gitdir \o <<"objects">>)}
        \cup {WriteFile(WithDir(StoreFs, Fanout(A1)), ObjectFile(A1), c) : c \in FileContents}

NoFind == [pc |-> "idle", start |-> <<>>, cur |-> <<>>, required |-> FALSE, visited |-> {}]

NoOp == [name |-> "", path |-> <<>>]

InitRead ==
    /\ fs \in StoreLayouts
    /\ ret = Idle
    /\ op = NoOp
    /\ find = NoFind
    /\ nwrites = 0

ObjectRead(sha) ==
    /\ \E r \in {object_read(fs, StoreRepo, sha)} :
          /\ fs' = r.fs
          /\ ret' = r.ret
    /\ op' = [name |-> "object_read", path |-> sha]
    /\ UNCHANGED <<find, nwrites>>

NextRead == \E sha \in Addresses : ObjectRead(sha)

SpecRead == InitRead /\ [][NextRead]_vars

---------------------------------------------------------------------------
(* The object store under write                                            *)

MaxWrites == 3

MaxWritePayload == 1

WritePayloads == SeqsUpTo({"a"}, MaxWritePayload)

InitWrite ==
    /\ fs = StoreFs
    /\ ret = Idle
    /\ op = NoOp
    /\ find = NoFind
    /\ nwrites = 0

\* The call write_object(repo, object) for an object of the given tag and
\* payload; op.path keeps the encoded bytes handed in.
ObjectWrite(tag, payload) ==
    /\ nwrites < MaxWrites
    /\ \E r \in {object_write(fs, StoreRepo, tag, payload)} :
          /\ fs' = r.fs
          /\ ret' = r.ret
    /\ op' = [name |-> "object_write", path |-> Encode(tag, payload)]
    /\ nwrites' = nwrites + 1
    /\ UNCHANGED find

NextWrite == \E tag \in KnownTags, payload \in WritePayloads : ObjectWrite(tag, payload)

SpecWrite == InitWrite /\ [][NextWrite]_vars

---------------------------------------------------------------------------
(* repo_find                                                               *)

\* os.path.realpath of the first n components of an absolute path in a tree
\* without symbolic links: ".." drops the component before it (the root is
\* its own parent).
RECURSIVE RealpathPrefix(_, _)
RealpathPrefix(p, n) ==
    IF n = 0 THEN <<>>
    ELSE Bind(RealpathPrefix(p, n - 1),
              LAMBDA d : IF p[n] = ".." THEN Parent(d) ELSE Append(d, p[n]))

Realpath(p) == RealpathPrefix(p, Len(p))

\* A parent computation that stays where it is.
ParentDirSame(path) == Realpath(path)

\* parent = os.path.realpath(os.path.join(path, ".."))
ParentDir(path) == Realpath(Append(path, ".."))

\* What GitRepository(path) hands back to the caller of repo_find / main.
OpenResult(f, path) ==
    Bind(GitRepository(f, path, FALSE),
         LAMBDA g : IF g.st = "ok" THEN RetRepo(g.repo.worktree) ELSE RetRaise(g.err))

\* One invocation of repo_find, up to its return or its recursive call:
\* [done, ret, next].
FindInvoke(f, arg, required) ==
    Bind(Realpath(arg),
         LAMBDA path :
            IF IsDir(f, Append(path, ".git"))
            THEN [done |-> TRUE, ret |-> OpenResult(f, path), next |-> path]
            ELSE Bind(ParentDir(path),
                      LAMBDA parent :
                        IF parent = path
                        THEN [done |-> TRUE,
                              ret |-> IF required THEN RetRaise("No git directory")
                                      ELSE RetNone(<<>>),
                              next |-> path]
                        ELSE [done |-> FALSE, ret |-> Idle, next |-> parent]))

\* repo_find(path, required): the value returned or the exception raised.
RECURSIVE repo_find(_, _, _)
repo_find(f, arg, required) ==
    Bind(FindInvoke(f, arg, required),
         LAMBDA b : IF b.done THEN b.ret ELSE repo_find(f, b.next, required))

---------------------------------------------------------------------------
(* Repositories in a directory tree: create and open                       *)

MaxDepth == 2

\* The directories a repository may be rooted at: /, /a, /a/a, ...
WorkPath(k) == [i \in 1..k |-> "a"]

WorkPaths == {WorkPath(k) : k \in 0..MaxDepth}

GitDirOf(p) == Append(p, ".git")

ConfigOf(p) == p \o <<".git", "config">>

JunkOf(p) == p \o <<".git", "junk">>

Version1Config ==
    ConfigWrite(<<Option("core", "repositoryformatversion", <<"1">>)>>)

InitRepo ==
    /\ fs = RootFs
    /\ ret = Idle
    /\ op = NoOp
    /\ find = NoFind
    /\ nwrites = 0

EnvStep(f) ==
    /\ fs' = f
    /\ ret' = Idle
    /\ op' = [name |-> "env", path |-> <<>>]
    /\ UNCHANGED <<find, nwrites>>

\* Another program makes a directory: a worktree or an empty .git.
EnvMkdir(p) ==
    /\ ~Exists(fs, p) /\ IsDir(fs, Parent(p))
    /\ EnvStep(WithDir(fs, p))

\* Another program makes a regular file where a worktree, a .git or an
\* entry of a .git directory would be.
EnvTouch(p) ==
    /\ ~Exists(fs, p) /\ IsDir(fs, Parent(p))
    /\ EnvStep(WriteFile(fs, p, <<>>))

\* Another program rewrites a repository's configuration to format version 1.
EnvSetVersion(p) ==
    /\ IsFile(fs, ConfigOf(p)) /\ fs[ConfigOf(p)].data # Version1Config
    /\ EnvStep(WriteFile(fs, ConfigOf(p), Version1Config))

\* cmd_init: repo_create(p).
RepoCreate(p) ==
    /\ \E r \in {repo_create(fs, p)} :
          /\ fs' = r.fs
          /\ ret' = IF r.st = "ok" THEN RetRepo(r.repo.worktree) ELSE RetRaise(r.err)
    /\ op' = [name |-> "repo_create", path |-> p]
    /\ UNCHANGED <<find, nwrites>>

\* GitRepository(p), the constructor as the commands call it.
RepoOpen(p) ==
    /\ ret' = OpenResult(fs, p)
    /\ op' = [name |-> "open", path |-> p]
    /\ UNCHANGED <<fs, find, nwrites>>

NextRepo ==
    \/ \E p \in (WorkPaths \ {<<>>}) \cup {GitDirOf(q) : q \in WorkPaths} : EnvMkdir(p)
    \/ \E p \in (WorkPaths \ {<<>>}) \cup {GitDirOf(q) : q \in WorkPaths}
                    \cup {JunkOf(q) : q \in WorkPaths} : EnvTouch(p)
    \/ \E p \in WorkPaths : EnvSetVersion(p)
    \/ \E p \in WorkPaths : RepoCreate(p)
    \/ \E p \in WorkPaths : RepoOpen(p)

SpecRepo == InitRepo /\ [][NextRepo]_vars

---------------------------------------------------------------------------
(* repo_find in a directory tree                                           *)

\* What a directory of the tree may be: missing, a plain directory, a
\* created repository, a repository of format version 1, a directory whose
\* .git is a regular file, a directory whose .git is empty.
DirKinds == {"absent", "plain", "repo", "v1repo", "gitfile", "emptygit"}

EnsureDir(f, p) == IF Exists(f, p) THEN f ELSE Makedirs(f, p).fs

\* The tree f with the directory p made to be of kind k.
Place(f, p, k) ==
    CASE k = "absent" -> f
      [] k = "plain" -> EnsureDir(f, p)
      [] k = "repo" -> repo_create(f, p).fs
      [] k = "v1repo" -> Bind(repo_create(f, p).fs,
                              LAMBDA g : WriteFile(g, ConfigOf(p), Version1Config))
      [] k = "gitfile" -> Bind(EnsureDir(f, p), LAMBDA g : WriteFile(g, GitDirOf(p), <<>>))
      [] k = "emptygit" -> Bind(EnsureDir(f, p), LAMBDA g : WithDir(g, GitDirOf(p)))

\* The tree whose directories of depth 0..n are of the kinds given.
RECURSIVE BuildTree(_, _)
BuildTree(kinds, n) ==
    IF n < 0 THEN RootFs
    ELSE Bind(BuildTree(kinds, n - 1), LAMBDA f : Place(f, WorkPath(n), kinds[n]))

FindTrees == {BuildTree(kinds, MaxDepth) : kinds \in [0..MaxDepth -> DirKinds]}

\* Start paths: the directories of the tree, one below the deepest (it does
\* not exist), and spellings with a trailing "..".
StartPaths ==
    WorkPaths \cup {WorkPath(MaxDepth + 1)} \cup {Append(p, "..") : p \in WorkPaths}

InitFind ==
    /\ fs \in FindTrees
    /\ ret = Idle
    /\ op = NoOp
    /\ find = NoFind
    /\ nwrites = 0

\* The call repo_find(start, required).
FindStart(start, required) ==
    /\ find.pc # "run"
    /\ find' = [pc |-> "run", start |-> start, cur |-> start,
                required |-> required, visited |-> {}]
    /\ ret' = Idle
    /\ op' = [name |-> "repo_find", path |-> start]
    /\ UNCHANGED <<fs, nwrites>>

\* One invocation of repo_find: it returns, raises, or calls itself on the
\* parent.
FindStep ==
    /\ find.pc = "run"
    /\ \E b \in {FindInvoke(fs, find.cur, find.required)} :
          /\ find' = [find EXCEPT !.pc = IF b.done THEN "done" ELSE "run",
                                  !.cur = b.next,
                                  !.visited = @ \cup {Realpath(find.cur)}]
          /\ ret' = b.ret
    /\ UNCHANGED <<fs, op, nwrites>>

NextFind ==
    \/ \E p \in StartPaths, required \in BOOLEAN : FindStart(p, required)
    \/ FindStep

SpecFind == InitFind /\ [][NextFind]_vars

\* A call that has started runs to its end.
SpecFindFair == SpecFind /\ WF_vars(FindStep)

---------------------------------------------------------------------------
(* Properties of object_read                                               *)

ReadDone == op.name = "object_read"

\* The object file of the address just read is a regular file.
ReadFileExists == ReadDone /\ IsFile(fs, ObjectFile(op.path))

\* The decompressed stream of the address just read.
ReadStream == Decompress(fs[ObjectFile(op.path)].data)

Spaces(raw) == {i \in 1..Len(raw) : raw[i] = SP}

\* The 1-based position of the first space, and of the first NUL after it.
FirstSpace(raw) == Min(Spaces(raw))

NulsAfterSpace(raw) == {j \in (FirstSpace(raw) + 1)..Len(raw) : raw[j] = NUL}

HeaderNul(raw) == Min(NulsAfterSpace(raw))

HasHeader(raw) == Spaces(raw) # {} /\ NulsAfterSpace(raw) # {}

TagOf(raw) == SubSeq(raw, 1, FirstSpace(raw) - 1)

SizeField(raw) == SubSeq(raw, FirstSpace(raw) + 1, HeaderNul(raw) - 1)

PayloadOf(raw) == SubSeq(raw, HeaderNul(raw) + 1, Len(raw))

\* The header is tag SPACE decimal-length NUL.
HasDecimalHeader(raw) ==
    /\ HasHeader(raw)
    /\ SizeField(raw) # <<>>
    /\ \A i \in 1..Len(SizeField(raw)) : IsDigit(SizeField(raw)[i])

Declared(raw) == DecimalValue(SizeField(raw))

IsMalformedError(r, sha) ==
    r.kind = "error" /\ r.exc = "Exception" /\ r.sha = sha
        /\ r.msg = "malformed object: bad length"

IsUnknownTypeError(r, fmt, sha) ==
    r.kind = "error" /\ r.exc = "Exception" /\ r.sha = sha
        /\ r.msg = "unknown type" /\ r.fmt = fmt

\* C1: when the object file exists and decompresses to a stream whose header
\* declares a decimal length different from the number of bytes after the
\* header's NUL, object_read raises the malformed-object error naming the
\* address (and so returns no object).
C1_LengthMismatchIsMalformed ==
    (ReadFileExists /\ ReadStream.ok /\ HasDecimalHeader(ReadStream.raw)
        /\ Declared(ReadStream.raw) # Len(PayloadOf(ReadStream.raw)))
    => IsMalformedError(ret, op.path)

\* A read of a stream whose payload is longer than declared.
C1_Witness ==
    /\ ReadFileExists /\ ReadStream.ok /\ HasDecimalHeader(ReadStream.raw)
    /\ Declared(ReadStream.raw) < Len(PayloadOf(ReadStream.raw))
    /\ TagOf(ReadStream.raw) = Blob
    /\ IsMalformedError(ret, op.path)

\* C2: when no regular file exists at objects/<a[0:2]>/<a[2:]> (the
\* first-level directory may be missing too), object_read returns None and
\* raises nothing.
C2_AbsentIsNotFound ==
    (ReadDone /\ ~IsFile(fs, ObjectFile(op.path))) => ret.kind = "none"

\* C3: whenever object_read returns an object, the stream is
\* tag SPACE decimal-length NUL payload: the variant is the tag before the
\* first space, the payload is the bytes after the first NUL following it,
\* and their count is the declared length; a stream with no such NUL is
\* never read successfully.
C3_ReturnedObjectHasHeader ==
    (ReadFileExists /\ ret.kind = "object")
    => /\ ReadStream.ok
       /\ HasHeader(ReadStream.raw)
       /\ TagOf(ReadStream.raw) \in KnownTags
       /\ ret.variant = Str(TagOf(ReadStream.raw))
       /\ ret.data = PayloadOf(ReadStream.raw)
       /\ PyInt(SizeField(ReadStream.raw)).ok
       /\ PyInt(SizeField(ReadStream.raw)).val = Len(ret.data)

\* C4: a stored stream whose tag (the bytes before the first space) is none
\* of blob, tree, commit, tag makes object_read raise the unknown-type error
\* naming the tag and the address.  Stated here for the streams whose header
\* is well formed and whose declared length is right, where no length error
\* can come first.
C4_UnknownTagIsUnknownType ==
    (ReadFileExists /\ ReadStream.ok /\ HasDecimalHeader(ReadStream.raw)
        /\ Declared(ReadStream.raw) = Len(PayloadOf(ReadStream.raw))
        /\ TagOf(ReadStream.raw) \notin KnownTags)
    => IsUnknownTypeError(ret, TagOf(ReadStream.raw), op.path)

\* C5: every failure of object_read on an existing object file is the
\* malformed-object or the unknown-type error, carrying the address.
C5_OnlyTwoErrorKinds ==
    (ReadFileExists /\ ret.kind = "error")
    => /\ ret.exc = "Exception" /\ ret.sha = op.path
       /\ ret.msg \in {"malformed object: bad length", "unknown type"}

\* C6: object_read changes nothing in the file system, whatever it returns
\* or raises.
C6_ReadIsReadOnly == [][op'.name = "object_read" => fs' = fs]_vars

\* A read of an address whose first-level directory is missing has run, and
\* the directory is still missing.
C6_Witness ==
    /\ ReadDone /\ ret.kind = "error"
    /\ Exists(fs, StoreRepo.gitdir \o <<"objects">>)
    /\ ~Exists(fs, Fanout(op.path))

---------------------------------------------------------------------------
(* Properties of repo_create, GitRepository and repo_find                  *)

\* The location p is taken: p is no directory, or p/.git has an entry.
Occupied(f, p) ==
    \/ Exists(f, p) /\ ~IsDir(f, p)
    \/ \E q \in DOMAIN f : IsUnder(q, GitDirOf(p)) /\ q # GitDirOf(p)

\* C7: repo_create(path) on a path that exists and is no directory, or whose
\* .git has any entry, raises and leaves the file system as it was; so a
\* second repo_create on the path of a successful one raises and alters
\* nothing.
C7_CreateRefusesOccupied ==
    [][ /\ (op'.name = "repo_create" /\ Occupied(fs, op'.path))
            => (ret'.kind = "error" /\ fs' = fs)
        /\ (op.name = "repo_create" /\ ret.kind = "repo"
              /\ op'.name = "repo_create" /\ op'.path = op.path)
            => (ret'.kind = "error" /\ fs' = fs) ]_vars

\* repo_create has refused a path that holds a created repository.
C7_Witness ==
    /\ op.name = "repo_create" /\ ret.kind = "error" /\ ret.msg = "is not empty!"
    /\ IsFile(fs, ConfigOf(op.path))
    /\ IsDir(fs, GitDirOf(op.path) \o <<"refs", "heads">>)

\* The configuration text has a core.repositoryformatversion line of value 0.
HasVersion0(lines) ==
    \E i \in 1..Len(lines) :
        /\ lines[i].t = "option" /\ lines[i].name = "repositoryformatversion"
        /\ lines[i].val = <<"0">>
        /\ \E j \in 1..(i - 1) :
              /\ lines[j] = SectionLine("core")
              /\ \A k \in (j + 1)..(i - 1) : lines[k].t = "option"

Accepted(f, p) ==
    /\ IsDir(f, GitDirOf(p))
    /\ IsFile(f, ConfigOf(p))
    /\ HasVersion0(f[ConfigOf(p)].data)

\* C10: when repo_create(path) returns, path/.git holds an objects directory
\* and a config file of format version 0, GitRepository(path) accepts it and
\* repo_find(path) returns the repository rooted at path; and whatever
\* GitRepository(path) accepts has a .git directory and a config file of
\* format version 0.
C10_CreateThenOpen ==
    /\ (op.name = "repo_create" /\ ret.kind = "repo")
        => /\ ret.path = op.path
           /\ IsDir(fs, GitDirOf(op.path) \o <<"objects">>)
           /\ Accepted(fs, op.path)
           /\ OpenResult(fs, op.path) = RetRepo(op.path)
           /\ repo_find(fs, op.path, TRUE) = RetRepo(op.path)
    /\ (op.name = "open" /\ ret.kind = "repo") => Accepted(fs, op.path)

\* repo_create has returned for a directory below one that holds a .git.
C10_Witness ==
    /\ op.name = "repo_create" /\ ret.kind = "repo"
    /\ op.path # <<>>
    /\ IsDir(fs, GitDirOf(Parent(op.path)))

\* What one invocation of repo_find on find.cur must do.
FindStepOK ==
    LET path == Realpath(find.cur)
    IN /\ path \notin find.visited
       /\ \A q \in find.visited :
             IsUnder(q, path) /\ q # path /\ ~IsDir(fs, GitDirOf(q))
       /\ IF IsDir(fs, GitDirOf(path))
          THEN /\ find'.pc = "done"
               /\ ret'.kind \in {"repo", "error"}
               /\ ret'.kind = "repo" => ret'.path = path
          ELSE IF path = <<>>
          THEN /\ find'.pc = "done"
               /\ IF find.required
                  THEN ret'.kind = "error" /\ ret'.msg = "No git directory"
                  ELSE ret'.kind = "none"
          ELSE /\ find'.pc = "run"
               /\ find'.cur = SubSeq(path, 1, Len(path) - 1)
               /\ ret'.kind = "idle"

\* C9: repo_find ends for every start path; each invocation either stops at
\* the current directory because it holds a .git directory (the nearest
\* ancestor-or-self that does), or moves to the strict parent, or at the
\* root raises (required) or returns None (not required); no directory is
\* visited twice.
C9_FindWalksUpAndStops ==
    /\ [][(find.pc = "run" /\ find' # find) => FindStepOK]_vars
    /\ [](find.pc = "run" => Realpath(find.cur) \notin find.visited)
    /\ (find.pc = "run") ~> (find.pc = "done")

\* repo_find has walked up at least two directories and found a repository.
C9_Witness ==
    /\ find.pc = "done" /\ ret.kind = "repo"
    /\ Cardinality(find.visited) >= 3

---------------------------------------------------------------------------
(* Properties of the write path                                            *)

ObjectsDir == StoreRepo.gitdir \o <<"objects">>

\* The object files of the store: the regular files two levels below objects.
ObjectFiles(f) ==
    {p \in DOMAIN f : IsUnder(p, ObjectsDir) /\ Len(p) = Len(ObjectsDir) + 2
                        /\ f[p].kind = "file"}

\* The object files that hold the encoded bytes raw.
StoredAt(f, raw) ==
    {p \in ObjectFiles(f) : Decompress(f[p].data) = [ok |-> TRUE, raw |-> raw]}

\* C8: every write_object returns an address and leaves the encoded bytes in
\* the one file of that address; no write changes a stored file; a write of
\* bytes already stored changes nothing and returns the address they are
\* stored under; no two files of the store hold the same bytes.
C8_WriteIsIdempotent ==
    /\ [][op'.name = "object_write" =>
            /\ ret'.kind = "address"
            /\ StoredAt(fs', op'.path) = {ObjectFile(ret'.sha)}
            /\ \A p \in ObjectFiles(fs) : p \in DOMAIN fs' /\ fs'[p] = fs[p]
            /\ StoredAt(fs, op'.path) # {}
                => /\ fs' = fs
                   /\ StoredAt(fs, op'.path) = {ObjectFile(ret'.sha)}]_vars
    /\ [](\A p \in ObjectFiles(fs), q \in ObjectFiles(fs) :
            fs[p].data = fs[q].data => p = q)

\* The same object has been written twice: two writes, one file.
C8_Witness ==
    /\ op.name = "object_write" /\ nwrites = 2 /\ ret.kind = "address"
    /\ ObjectFiles(fs) = {ObjectFile(ret.sha)}
    /\ StoredAt(fs, op.path) = {ObjectFile(ret.sha)}

============================================================================
